---- MODULE Spec2Model ----
(***************************************************************************)
(* A model of lc3.c: the start-up sequence of main, the fetch step and the *)
(* opcode switch of the execution loop.  The case bodies of the switch are *)
(* modelled as the source has them.  The four routines main calls without  *)
(* defining them (read_image, handle_interrupt, disable_input_buffering,   *)
(* mem_read) are modelled from the design document.                        *)
(***************************************************************************)
EXTENDS Integers, Naturals, Sequences, FiniteSets, TLC

\* ------------------------------------------------------------ bounds
\* Largest number of image paths on the command line.
MaxArgs == 2

\* ------------------------------------------------------------ registers
R_R0 == 0
R_R1 == 1
R_R2 == 2
R_R3 == 3
R_R4 == 4
R_R5 == 5
R_R6 == 6
R_R7 == 7
R_PC == 8
R_COND == 9
R_COUNT == 10

FL_POS == 1
FL_ZRO == 2
FL_NEG == 4

MEMORY_MAX == 65536

OP_BR == 0
OP_ADD == 1
OP_LD == 2
OP_ST == 3
OP_JSR == 4
OP_AND == 5
OP_LDR == 6
OP_STR == 7
OP_RTI == 8
OP_NOT == 9
OP_LDI == 10
OP_STI == 11
OP_JMP == 12
OP_RES == 13
OP_LEA == 14
OP_TRAP == 15

PC_START == 12288

\* uint16_t arithmetic
U16(x) == x % MEMORY_MAX

\* ------------------------------------------------------------ bit fields
Pow2(n) == 2 ^ n
\* bits lo .. lo+width-1 of a 16-bit word
Field(w, lo, width) == (w \div Pow2(lo)) % Pow2(width)
Bit(w, n) == Field(w, n, 1)

\* sign_extend(x, bit_count): the low bit_count bits of x as a two's-complement
\* number, widened to 16 bits by copying bit bit_count-1 into the bits above it
SignExtend(x, bit_count) ==
    IF Bit(x, bit_count - 1) = 1
    THEN (x % Pow2(bit_count)) + (MEMORY_MAX - Pow2(bit_count))
    ELSE x

\* the operand fields of an instruction word
DR(ins) == Field(ins, 9, 3)
SR1(ins) == Field(ins, 6, 3)
SR2(ins) == Field(ins, 0, 3)
ImmFlag(ins) == Bit(ins, 5)
Imm5(ins) == Field(ins, 0, 5)
PCOffset9(ins) == Field(ins, 0, 9)
PCOffset11(ins) == Field(ins, 0, 11)
LongFlag(ins) == Bit(ins, 11)
TrapVect(ins) == Field(ins, 0, 8)

\* ------------------------------------------------------------ memory
\* uint16_t memory[MEMORY_MAX], zero-initialized: a cell that was never
\* written holds 0, so only the written cells are kept.
EmptyMemory == << >>
MemGet(mem, a) == IF a \in DOMAIN mem THEN mem[a] ELSE 0
MemSet(mem, a, v) == [x \in (DOMAIN mem) \cup {a} |-> IF x = a THEN v ELSE mem[x]]

\* memory-mapped keyboard registers
MR_KBSR == 65024
MR_KBDR == 65026

\* what the terminal poll of one mem_read finds: no key, or a key code
NoKey == 0
Keys == {97}
KeyPoll == {NoKey} \cup Keys

\* A mem_read that polls the terminal whatever the address read.
MemReadMemoryAnyAddress(mem, a, k) ==
    IF k # NoKey
    THEN MemSet(MemSet(mem, MR_KBDR, k), MR_KBSR,
                IF Bit(MemGet(mem, MR_KBSR), 15) = 1
                THEN MemGet(mem, MR_KBSR)
                ELSE MemGet(mem, MR_KBSR) + 32768)
    ELSE mem

\* mem_read(address): the cell read and the memory after the read.  A read of
\* the status address polls the terminal; a pending key is latched into the
\* data register with bit 15 of the status register set.
MemReadMemory(mem, a, k) ==
    IF a = MR_KBSR /\ k # NoKey
    THEN MemSet(MemSet(mem, MR_KBDR, k), MR_KBSR,
                IF Bit(MemGet(mem, MR_KBSR), 15) = 1
                THEN MemGet(mem, MR_KBSR)
                ELSE MemGet(mem, MR_KBSR) + 32768)
    ELSE mem
MemReadValue(mem, a, k) == MemGet(MemReadMemory(mem, a, k), a)

\* ------------------------------------------------------------ images
\* The files the command line can name.  A file is <<origin, words>>; a path
\* that cannot be opened has no file.
Paths == {"prog.obj", "text.obj", "missing.obj"}
NoFile == << >>
ProgWords ==
    << 61477,  \* 0x3000  TRAP 0x25 (HALT)
       32768,  \* 0x3001  RTI
       4129,   \* 0x3002  ADD  R0, R0, #1
       42002,  \* 0x3003  LDI  R2, +18   (cell 0x3016 holds 0x3000)
       18433,  \* 0x3004  JSR  +1
       49600,  \* 0x3005  JMP  R7
       53248,  \* 0x3006  reserved
       61593,  \* 0x3007  TRAP 0x99
       4097,   \* 0x3008  ADD  R0, R0, R1
       4128,   \* 0x3009  ADD  R0, R0, #0
       20513,  \* 0x300A  AND  R0, R0, #1
       20481,  \* 0x300B  AND  R0, R0, R1
       20512,  \* 0x300C  AND  R0, R0, #0
       36991,  \* 0x300D  NOT  R0, R1
       3585,   \* 0x300E  BR   nzp, +1
       8705,   \* 0x300F  LD   R1, +1
       24640,  \* 0x3010  LDR  R0, R1, #0
       57345,  \* 0x3011  LEA  R0, +1
       12801,  \* 0x3012  ST   R1, +1
       45569,  \* 0x3013  STI  R1, +1
       28736,  \* 0x3014  STR  R0, R1, #0
       16448,  \* 0x3015  JSRR R1
       12288,  \* 0x3016  the address 0x3000
       61474   \* 0x3017  TRAP 0x22 (PUTS)
    >>
\* "ABC" and its terminator, for origin 0x0000
TextWords == << 65, 66, 67, 0 >>
Files(path) ==
    CASE path = "prog.obj" -> << 12288, ProgWords >>
      [] path = "text.obj" -> << 0, TextWords >>
      [] OTHER -> NoFile

\* read_image(path): FALSE when the file cannot be opened
ReadImageOk(path) == Files(path) # NoFile

RECURSIVE StoreWords(_, _, _)
StoreWords(mem, origin, words) ==
    IF words = << >> \/ origin >= MEMORY_MAX THEN mem
    ELSE StoreWords(MemSet(mem, origin, Head(words)), origin + 1, Tail(words))

\* read_image(path): the words of the file stored from its origin on
ReadImage(mem, path) == StoreWords(mem, Files(path)[1], Files(path)[2])

\* ------------------------------------------------------------ state
VARIABLES
    loc,          \* where main is
    argv,         \* the image paths argv[1..argc-1]
    j,            \* the index of the loading loop
    memory,       \* uint16_t memory[MEMORY_MAX]
    reg,          \* uint16_t reg[R_COUNT]
    running,      \* int running
    instr,        \* uint16_t instr, the word fetched last
    op,           \* uint16_t op
    handler,      \* whether handle_interrupt is installed for SIGINT
    tio,          \* the terminal's mode
    original_tio, \* the mode saved when raw mode was entered
    stdout,       \* what main has printed
    exitStatus    \* the exit status once the process has exited

vars == << loc, argv, j, memory, reg, running, instr, op, handler, tio,
           original_tio, stdout, exitStatus >>

argc == Len(argv) + 1

NotExited == -1

RECURSIVE SeqsUpTo(_, _)
SeqsUpTo(S, n) ==
    IF n = 0 THEN { << >> }
    ELSE LET shorter == SeqsUpTo(S, n - 1)
         IN  shorter \cup { Append(s, x) : s \in shorter, x \in S }

Init ==
    /\ loc = "start"
    /\ argv \in SeqsUpTo(Paths, MaxArgs)
    /\ j = 1
    /\ memory = EmptyMemory
    /\ reg = [i \in 0 .. (R_COUNT - 1) |-> 0]
    /\ running = 0
    /\ instr = 0
    /\ op = 0
    /\ handler = FALSE
    /\ tio = "cooked"
    /\ original_tio = "none"
    /\ stdout = << >>
    /\ exitStatus = NotExited

\* exit(status)
Exit(status) ==
    /\ loc' = "exited"
    /\ exitStatus' = status

\* ------------------------------------------------------------ start-up
\* A start-up that puts the terminal in raw mode before the images are loaded.
CheckArgsRawFirst ==
    /\ loc = "start"
    /\ IF argc < 2
       THEN /\ stdout' = Append(stdout, "usage")
            /\ Exit(2)
            /\ UNCHANGED << tio, original_tio >>
       ELSE /\ loc' = "load"
            /\ original_tio' = tio
            /\ tio' = "raw"
            /\ UNCHANGED << stdout, exitStatus >>
    /\ UNCHANGED << argv, j, memory, reg, running, instr, op, handler >>

\* if (argc < 2) { printf(usage); exit(2); }
CheckArgs ==
    /\ loc = "start"
    /\ IF argc < 2
       THEN /\ stdout' = Append(stdout, "usage")
            /\ Exit(2)
       ELSE /\ loc' = "load"
            /\ UNCHANGED << stdout, exitStatus >>
    /\ UNCHANGED << argv, j, memory, reg, running, instr, op, handler, tio,
                    original_tio >>

\* for (j = 1; j < argc; ++j) if (!read_image(argv[j])) { printf; exit(1); }
LoadImage ==
    /\ loc = "load"
    /\ IF j < argc
       THEN IF ReadImageOk(argv[j])
            THEN /\ memory' = ReadImage(memory, argv[j])
                 /\ j' = j + 1
                 /\ UNCHANGED << loc, stdout, exitStatus >>
            ELSE /\ stdout' = Append(stdout, << "failed to load image", argv[j] >>)
                 /\ Exit(1)
                 /\ UNCHANGED << memory, j >>
       ELSE /\ loc' = "signal"
            /\ UNCHANGED << memory, j, stdout, exitStatus >>
    /\ UNCHANGED << argv, reg, running, instr, op, handler, tio, original_tio >>

\* signal(SIGINT, handle_interrupt);
InstallHandler ==
    /\ loc = "signal"
    /\ handler' = TRUE
    /\ loc' = "termios"
    /\ UNCHANGED << argv, j, memory, reg, running, instr, op, tio,
                    original_tio, stdout, exitStatus >>

\* disable_input_buffering();
DisableInputBuffering ==
    /\ loc = "termios"
    /\ original_tio' = tio
    /\ tio' = "raw"
    /\ loc' = "init"
    /\ UNCHANGED << argv, j, memory, reg, running, instr, op, handler,
                    stdout, exitStatus >>

\* A start-up that leaves COND as the zero-initialized global has it.
InitRegsNoCond(rg) == [rg EXCEPT ![R_PC] = PC_START]

\* reg[R_COND] = FL_ZRO; reg[R_PC] = PC_START;
InitRegs(rg) == [rg EXCEPT ![R_COND] = FL_ZRO, ![R_PC] = PC_START]

\* reg[R_COND] = FL_ZRO; reg[R_PC] = PC_START; int running = 1;
InitMachine ==
    /\ loc = "init"
    /\ reg' = InitRegs(reg)
    /\ running' = 1
    /\ loc' = "loop"
    /\ UNCHANGED << argv, j, memory, instr, op, handler, tio, original_tio,
                    stdout, exitStatus >>

\* ------------------------------------------------------------ the loop
\* while (running) { instr = mem_read(reg[R_PC]++); op = instr >> 12; ... }
\* and, once running is 0, the shutdown block and the end of main.
Shutdown ==
    /\ Exit(0)
    /\ UNCHANGED << memory, reg, instr, op >>

\* A fetch whose program counter is wider than 16 bits.
FetchNoWrap ==
    \E k \in KeyPoll :
        /\ memory' = MemReadMemory(memory, reg[R_PC], k)
        /\ instr' = MemReadValue(memory, reg[R_PC], k)
        /\ op' = instr' \div 4096
        /\ reg' = [reg EXCEPT ![R_PC] = reg[R_PC] + 1]
        /\ loc' = "switch"
        /\ UNCHANGED exitStatus

Fetch ==
    \E k \in KeyPoll :
        /\ memory' = MemReadMemory(memory, reg[R_PC], k)
        /\ instr' = MemReadValue(memory, reg[R_PC], k)
        /\ op' = instr' \div 4096
        /\ reg' = [reg EXCEPT ![R_PC] = U16(reg[R_PC] + 1)]
        /\ loc' = "switch"
        /\ UNCHANGED exitStatus

LoopTest ==
    /\ loc = "loop"
    /\ IF running # 0 THEN Fetch ELSE Shutdown
    /\ UNCHANGED << argv, j, running, handler, tio, original_tio, stdout >>

\* The cases of the switch.  Each body is a comment followed by break: the
\* registers, the memory and running leave the case as they entered it.
\* Exec<OP>(rg, ins): reg after the case; Store<OP>(mem, rg, ins): memory after
\* it; TrapRunning(run, ins): running after case OP_TRAP.
\* An ADD that acts in immediate mode only.
ExecADDImmOnly(rg, ins) ==
    IF ImmFlag(ins) = 1
    THEN [rg EXCEPT ![DR(ins)] = U16(rg[SR1(ins)] + SignExtend(Imm5(ins), 5) + 1)]
    ELSE rg
\* A TRAP that writes R0 whatever the vector.
ExecTRAPWritesR0(rg, ins) == [rg EXCEPT ![R_R0] = TrapVect(ins)]
\* A TRAP that stops the loop on vector 0x25.
TrapRunningHalt(run, ins) == IF TrapVect(ins) = 37 THEN 0 ELSE run

ExecADD(rg, ins) == rg
ExecAND(rg, ins) == rg
ExecNOT(rg, ins) == rg
ExecBR(rg, ins) == rg
ExecJMP(rg, ins) == rg
ExecJSR(rg, ins) == rg
ExecLD(rg, ins) == rg
ExecLDI(rg, ins) == rg
ExecLDR(rg, ins) == rg
ExecLEA(rg, ins) == rg
ExecST(rg, ins) == rg
ExecSTI(rg, ins) == rg
ExecSTR(rg, ins) == rg
ExecTRAP(rg, ins) == rg
ExecBAD(rg, ins) == rg
StoreST(mem, rg, ins) == mem
StoreSTI(mem, rg, ins) == mem
StoreSTR(mem, rg, ins) == mem
TrapRunning(run, ins) == run
BadRunning(run, ins) == run

\* break; back to the loop test
Break ==
    /\ loc' = "loop"
    /\ UNCHANGED << argv, j, instr, op, handler, tio, original_tio, stdout,
                    exitStatus >>

\* case OP_ADD:
OpADD ==
    /\ loc = "switch"
    /\ op = OP_ADD
    /\ reg' = ExecADD(reg, instr)
    /\ UNCHANGED memory
    /\ UNCHANGED running
    /\ Break

\* case OP_AND:
OpAND ==
    /\ loc = "switch"
    /\ op = OP_AND
    /\ reg' = ExecAND(reg, instr)
    /\ UNCHANGED memory
    /\ UNCHANGED running
    /\ Break

\* case OP_NOT:
OpNOT ==
    /\ loc = "switch"
    /\ op = OP_NOT
    /\ reg' = ExecNOT(reg, instr)
    /\ UNCHANGED memory
    /\ UNCHANGED running
    /\ Break

\* case OP_BR:
OpBR ==
    /\ loc = "switch"
    /\ op = OP_BR
    /\ reg' = ExecBR(reg, instr)
    /\ UNCHANGED memory
    /\ UNCHANGED running
    /\ Break

\* case OP_JMP:
OpJMP ==
    /\ loc = "switch"
    /\ op = OP_JMP
    /\ reg' = ExecJMP(reg, instr)
    /\ UNCHANGED memory
    /\ UNCHANGED running
    /\ Break

\* case OP_JSR:
OpJSR ==
    /\ loc = "switch"
    /\ op = OP_JSR
    /\ reg' = ExecJSR(reg, instr)
    /\ UNCHANGED memory
    /\ UNCHANGED running
    /\ Break

\* case OP_LD:
OpLD ==
    /\ loc = "switch"
    /\ op = OP_LD
    /\ reg' = ExecLD(reg, instr)
    /\ UNCHANGED memory
    /\ UNCHANGED running
    /\ Break

\* case OP_LDI:
OpLDI ==
    /\ loc = "switch"
    /\ op = OP_LDI
    /\ reg' = ExecLDI(reg, instr)
    /\ UNCHANGED memory
    /\ UNCHANGED running
    /\ Break

\* case OP_LDR:
OpLDR ==
    /\ loc = "switch"
    /\ op = OP_LDR
    /\ reg' = ExecLDR(reg, instr)
    /\ UNCHANGED memory
    /\ UNCHANGED running
    /\ Break

\* case OP_LEA:
OpLEA ==
    /\ loc = "switch"
    /\ op = OP_LEA
    /\ reg' = ExecLEA(reg, instr)
    /\ UNCHANGED memory
    /\ UNCHANGED running
    /\ Break

\* case OP_ST:
OpST ==
    /\ loc = "switch"
    /\ op = OP_ST
    /\ reg' = ExecST(reg, instr)
    /\ memory' = StoreST(memory, reg, instr)
    /\ UNCHANGED running
    /\ Break

\* case OP_STI:
OpSTI ==
    /\ loc = "switch"
    /\ op = OP_STI
    /\ reg' = ExecSTI(reg, instr)
    /\ memory' = StoreSTI(memory, reg, instr)
    /\ UNCHANGED running
    /\ Break

\* case OP_STR:
OpSTR ==
    /\ loc = "switch"
    /\ op = OP_STR
    /\ reg' = ExecSTR(reg, instr)
    /\ memory' = StoreSTR(memory, reg, instr)
    /\ UNCHANGED running
    /\ Break

\* case OP_TRAP:
OpTRAP ==
    /\ loc = "switch"
    /\ op = OP_TRAP
    /\ reg' = ExecTRAP(reg, instr)
    /\ UNCHANGED memory
    /\ running' = TrapRunning(running, instr)
    /\ Break

\* case OP_RES: case OP_RTI: default:
OpBAD ==
    /\ loc = "switch"
    /\ op \notin { OP_ADD, OP_AND, OP_NOT, OP_BR, OP_JMP, OP_JSR, OP_LD, OP_LDI,
                   OP_LDR, OP_LEA, OP_ST, OP_STI, OP_STR, OP_TRAP }
    /\ reg' = ExecBAD(reg, instr)
    /\ UNCHANGED memory
    /\ running' = BadRunning(running, instr)
    /\ Break

\* ------------------------------------------------------------ SIGINT
\* handle_interrupt: restores the terminal and exits.
\* The status it exits with is not fixed by the design.
InterruptStatuses == {1, 2, 254}
HandleInterrupt ==
    /\ handler
    /\ loc # "exited"
    /\ tio' = IF original_tio = "none" THEN tio ELSE original_tio
    /\ \E status \in InterruptStatuses : Exit(status)
    /\ UNCHANGED << argv, j, memory, reg, running, instr, op, handler,
                    original_tio, stdout >>

Next ==
    \/ CheckArgs
    \/ LoadImage
    \/ InstallHandler
    \/ DisableInputBuffering
    \/ InitMachine
    \/ LoopTest
    \/ OpADD
    \/ OpAND
    \/ OpNOT
    \/ OpBR
    \/ OpJMP
    \/ OpJSR
    \/ OpLD
    \/ OpLDI
    \/ OpLDR
    \/ OpLEA
    \/ OpST
    \/ OpSTI
    \/ OpSTR
    \/ OpTRAP
    \/ OpBAD
    \/ HandleInterrupt

Spec == Init /\ [][Next]_vars

\* ------------------------------------------------------------ the design
\* What the design document's opcode table (4.4) and trap table (4.5) ask of
\* an instruction, for stating the properties below.
FlagOf(r) ==
    IF r = 0 THEN FL_ZRO ELSE IF Bit(r, 15) = 1 THEN FL_NEG ELSE FL_POS

RECURSIVE BitAnd(_, _, _)
BitAnd(a, b, n) ==
    IF n = 0 THEN 0
    ELSE (a % 2) * (b % 2) + 2 * BitAnd(a \div 2, b \div 2, n - 1)

Operand(rg, ins) ==
    IF ImmFlag(ins) = 1 THEN SignExtend(Imm5(ins), 5) ELSE rg[SR2(ins)]
DesignADD(rg, ins) == U16(rg[SR1(ins)] + Operand(rg, ins))
DesignAND(rg, ins) == BitAnd(rg[SR1(ins)], Operand(rg, ins), 16)
DesignNOT(rg, ins) == 65535 - rg[SR1(ins)]
DesignLEA(rg, ins) == U16(rg[R_PC] + SignExtend(PCOffset9(ins), 9))
DesignLD(rg, mem, ins) == MemGet(mem, DesignLEA(rg, ins))
DesignLDI(rg, mem, ins) == MemGet(mem, DesignLD(rg, mem, ins))
DesignLDR(rg, mem, ins) ==
    MemGet(mem, U16(rg[SR1(ins)] + SignExtend(Field(ins, 0, 6), 6)))
DesignResult(rg, mem, ins) ==
    CASE ins \div 4096 = OP_ADD -> DesignADD(rg, ins)
      [] ins \div 4096 = OP_AND -> DesignAND(rg, ins)
      [] ins \div 4096 = OP_NOT -> DesignNOT(rg, ins)
      [] ins \div 4096 = OP_LD -> DesignLD(rg, mem, ins)
      [] ins \div 4096 = OP_LDI -> DesignLDI(rg, mem, ins)
      [] ins \div 4096 = OP_LDR -> DesignLDR(rg, mem, ins)
      [] OTHER -> DesignLEA(rg, ins)
\* JSR / JSRR: R7 = PC, then the target
DesignJSRTarget(rg, ins) ==
    IF LongFlag(ins) = 1
    THEN U16(rg[R_PC] + SignExtend(PCOffset11(ins), 11))
    ELSE [rg EXCEPT ![R_R7] = rg[R_PC]][SR1(ins)]

FlagOps == { OP_ADD, OP_AND, OP_NOT, OP_LD, OP_LDI, OP_LDR, OP_LEA }
IsHALT(ins) == ins \div 4096 = OP_TRAP /\ TrapVect(ins) = 37
FatalDecode(ins) ==
    \/ ins \div 4096 \in { OP_RTI, OP_RES }
    \/ ins \div 4096 = OP_TRAP /\ TrapVect(ins) \notin 32 .. 37

\* The execution loop was never entered: nothing of the set-up has happened.
NeverEntered == running = 0 /\ ~handler /\ original_tio = "none" /\ tio = "cooked"

\* ------------------------------------------------------------ properties

\* C1: executing TRAP 0x25 (HALT) while the loop is running sets running to 0,
\* a loop that is not running fetches nothing more, and running goes from
\* non-zero to 0 only by a HALT trap or a fatal decode condition.
C1_HaltStopsLoop ==
    [][ /\ (loc = "switch" /\ IsHALT(instr)) => (running' = 0 \/ loc' = "exited")
        /\ (loc = "loop" /\ running = 0) => loc' # "switch"
        /\ (running # 0 /\ running' = 0)
               => (loc = "switch" /\ (IsHALT(instr) \/ FatalDecode(instr))) ]_vars

\* C2: a fetched RTI, reserved opcode or TRAP with a vector outside 0x20..0x25
\* stops the loop (running becomes 0, or the process exits) before any further
\* instruction is fetched.
C2_FatalDecodeStops ==
    [][ (loc = "switch" /\ FatalDecode(instr))
            => (running' = 0 \/ loc' = "exited") ]_vars

\* C3: after a flag-affecting instruction (ADD, AND, NOT, LD, LDI, LDR, LEA)
\* COND is the one flag that matches the value r the instruction writes:
\* negative if bit 15 of r is set, zero if r = 0, positive otherwise.
C3_FlagsFollowResult ==
    [][ (loc = "switch" /\ op \in FlagOps /\ loc' = "loop")
            => reg'[R_COND] = FlagOf(DesignResult(reg, memory, instr)) ]_vars

\* C4: the step that enters the execution loop leaves the machine running with
\* PC = 0x3000, COND = the zero flag and R0..R7 = 0.
C4_InitialMachine ==
    [][ (loc = "init" /\ loc' = "loop")
            => /\ running' # 0
               /\ reg'[R_PC] = 12288
               /\ reg'[R_COND] = 2
               /\ \A i \in 0 .. 7 : reg'[i] = 0 ]_vars

\* C4 witness: the loop has just been entered, nothing fetched yet.
C4_Witness ==
    loc = "loop" /\ running = 1 /\ reg[R_PC] = 12288 /\ instr = 0

\* C5, the two early exits: without an image path the exit status is 2, with a
\* path that fails to load it is 1, and neither exit has entered the loop.
C5_EarlyExits ==
    /\ (loc = "exited" /\ Len(argv) = 0) => (exitStatus = 2 /\ NeverEntered)
    /\ (loc = "exited" /\ \E i \in 1 .. Len(argv) : ~ReadImageOk(argv[i]))
           => (exitStatus = 1 /\ NeverEntered)

\* C5: the two early exits, and after a HALT trap the next step of the process
\* is its exit, with status 0 unless that step is the interrupt handler's.
C5_ExitStatuses ==
    [][ /\ C5_EarlyExits'
        /\ (loc = "loop" /\ IsHALT(instr))
               => (loc' = "exited" /\ (exitStatus' = 0 \/ tio' # tio)) ]_vars

C7_AddWrapsMod16 ==
    [][ (loc = "switch" /\ op = OP_ADD /\ loc' = "loop")
            => reg'[DR(instr)] = DesignADD(reg, instr) ]_vars

\* The instructions of the other mode that name the same operand value as ins:
\* same opcode, dst and src1; a register holding the immediate of ins, or an
\* immediate equal to the src2 register of ins.
Counterparts(rg, ins) ==
    LET base == ins - (ins % 64)
    IN  IF ImmFlag(ins) = 1
        THEN { base + sr2 : sr2 \in { x \in 0 .. 7 : rg[x] = SignExtend(Imm5(ins), 5) } }
        ELSE { base + 32 + imm :
                 imm \in { x \in 0 .. 31 : SignExtend(x, 5) = rg[SR2(ins)] } }

\* C8: an ADD or AND step leaves the destination register and COND as the
\* instruction of the other mode with the same operand value would have left
\* them from the same state.
C8_ModesAgree ==
    [][ (loc = "switch" /\ op \in { OP_ADD, OP_AND } /\ loc' = "loop")
            => \A c \in Counterparts(reg, instr) :
                  LET r == IF op = OP_ADD THEN ExecADD(reg, c) ELSE ExecAND(reg, c)
                  IN  /\ reg'[DR(instr)] = r[DR(instr)]
                      /\ reg'[R_COND] = r[R_COND] ]_vars

\* C8 witness: an ADD or AND has been executed whose operand value is also
\* expressible in the other mode.
C8_Witness ==
    /\ loc = "loop"
    /\ op \in { OP_ADD, OP_AND }
    /\ Counterparts(reg, instr) # {}

\* C9: LDI leaves the destination register equal to Y = Memory[Memory[addr]],
\* addr = incremented PC + sign_extend(offset, 9), and COND the flag of Y.
C9_LdiDoubleIndirection ==
    [][ (loc = "switch" /\ op = OP_LDI /\ loc' = "loop")
            => /\ reg'[DR(instr)] = DesignLDI(reg, memory, instr)
               /\ reg'[R_COND] = FlagOf(DesignLDI(reg, memory, instr)) ]_vars

\* C10: JSR/JSRR leaves R7 = the incremented PC and PC = the target, and a JMP
\* leaves PC = the value of its base register (R7 for a return).
C10_JsrThenJmpReturns ==
    [][ /\ (loc = "switch" /\ op = OP_JSR /\ loc' = "loop")
               => /\ reg'[R_R7] = reg[R_PC]
                  /\ reg'[R_PC] = DesignJSRTarget(reg, instr)
        /\ (loc = "switch" /\ op = OP_JMP /\ loc' = "loop")
               => reg'[R_PC] = reg[SR1(instr)] ]_vars

\* Two memories hold the same 65536 cells.
SameCells(m1, m2) ==
    \A x \in (DOMAIN m1) \cup (DOMAIN m2) : MemGet(m1, x) = MemGet(m2, x)

\* C11: BR leaves PC = PC + sign_extend(offset, 9) mod 2^16 exactly when one of
\* its condition bits is the flag set in COND, and the incremented PC
\* otherwise; no other register and no memory cell changes.
C11_BranchOnFlags ==
    [][ (loc = "switch" /\ op = OP_BR /\ loc' = "loop")
            => /\ reg'[R_PC] =
                      IF BitAnd(Field(instr, 9, 3), reg[R_COND], 3) # 0
                      THEN U16(reg[R_PC] + SignExtend(PCOffset9(instr), 9))
                      ELSE reg[R_PC]
               /\ \A i \in 0 .. 9 : i # R_PC => reg'[i] = reg[i]
               /\ SameCells(memory', memory) ]_vars

\* C12: executing the HALT trap changes no memory cell and no register other
\* than R7.
C12_HaltFrame ==
    [][ (loc = "switch" /\ IsHALT(instr) /\ loc' = "loop")
            => /\ SameCells(memory', memory)
               /\ \A i \in 0 .. 9 : i # R_R7 => reg'[i] = reg[i] ]_vars

\* C12 witness: a HALT trap has been executed.
C12_Witness ==
    loc = "loop" /\ IsHALT(instr) /\ reg[R_PC] = 12289

\* The low bytes of the cells from address a up to the first zero cell.
RECURSIVE PutsChars(_, _, _)
PutsChars(mem, a, fuel) ==
    IF fuel = 0 \/ MemGet(mem, a) = 0 THEN << >>
    ELSE << MemGet(mem, a) % 256 >> \o PutsChars(mem, U16(a + 1), fuel - 1)

\* C13: the PUTS trap (vector 0x22) appends to the terminal output the low byte
\* of each cell from Memory[R0] up to, and not including, the first zero cell.
C13_PutsWritesString ==
    [][ (loc = "switch" /\ op = OP_TRAP /\ TrapVect(instr) = 34 /\ loc' = "loop")
            => stdout' = stdout \o PutsChars(memory, reg[R_R0], MEMORY_MAX) ]_vars

\* C15: a fetch step reads the word at the current PC into instr, takes its
\* top four bits as the opcode and leaves PC = (PC + 1) mod 2^16 before the
\* switch is entered.
C15_FetchIncrementsPC ==
    [][ (loc = "loop" /\ loc' = "switch")
            => /\ instr' = MemGet(memory', reg[R_PC])
               /\ op' = instr' \div 4096
               /\ reg'[R_PC] = (reg[R_PC] + 1) % 65536
               /\ reg'[R_PC] \in 0 .. 65535 ]_vars

\* C15 witness: the word at 0xFFFF has been fetched and PC has wrapped to 0.
C15_Witness ==
    loc = "switch" /\ running # 0 /\ reg[R_PC] = 0

\* C16: once the loop has been entered exactly one of the bits N, Z, P is set
\* in COND, and no other bit.
C16_OneFlagSet ==
    running # 0 => reg[R_COND] \in { 1, 2, 4 }

\* C16 witness: instructions, flag-affecting ones among them, have been
\* executed.
C16_Witness ==
    loc = "loop" /\ running # 0 /\ op = OP_LEA /\ reg[R_PC] = 12306

\* C17: a fetch at the keyboard-status address either finds no key and leaves
\* the memory as it is, or stores the key code in the data-register cell and
\* sets bit 15 of the status cell, and returns the status cell as it then is;
\* it can always complete without a key.  A fetch at any other address
\* returns the stored cell and changes no cell.
C17_StatusReadPolls ==
    [][ /\ (loc = "loop" /\ running # 0 /\ reg[R_PC] = MR_KBSR)
            => ENABLED (LoopTest /\ memory' = memory)
        /\ (loc = "loop" /\ loc' = "switch")
            => IF reg[R_PC] = MR_KBSR
               THEN /\ instr' = MemGet(memory', MR_KBSR)
                    /\ \/ SameCells(memory', memory)
                       \/ /\ MemGet(memory', MR_KBDR) \in Keys
                          /\ Bit(MemGet(memory', MR_KBSR), 15) = 1
                          /\ MemGet(memory', MR_KBSR) % 32768
                                 = MemGet(memory, MR_KBSR) % 32768
                          /\ \A x \in DOMAIN memory :
                                 x \notin { MR_KBSR, MR_KBDR }
                                     => MemGet(memory', x) = memory[x]
                          /\ DOMAIN memory' \subseteq
                                 (DOMAIN memory) \cup { MR_KBSR, MR_KBDR }
               ELSE /\ memory' = memory
                    /\ instr' = MemGet(memory, reg[R_PC]) ]_vars

\* C17 witness: the fetch at the status address has latched a key.
C17_Witness ==
    /\ loc = "switch"
    /\ reg[R_PC] = MR_KBSR + 1
    /\ MemGet(memory, MR_KBDR) = 97
    /\ Bit(instr, 15) = 1

\* C18: an interrupt that ends a running loop restores the terminal and takes
\* effect between two instructions only, never after the fetch of an
\* instruction whose case has not run yet.
C18_InterruptAtFetchBoundary ==
    [][ (running # 0 /\ loc' = "exited" /\ loc # "exited")
            => (loc = "loop" /\ tio' = original_tio) ]_vars

\* The effective address of a store-class instruction.
StoreAddress(rg, mem, ins) ==
    CASE ins \div 4096 = OP_ST -> DesignLEA(rg, ins)
      [] ins \div 4096 = OP_STI -> MemGet(mem, DesignLEA(rg, ins))
      [] OTHER -> U16(rg[SR1(ins)] + SignExtend(Field(ins, 0, 6), 6))

\* C19: ST, STI and STR leave the cell at the effective address equal to the
\* source register and change no other cell, no general register and not
\* COND.
C19_StoreOneCell ==
    [][ (loc = "switch" /\ op \in { OP_ST, OP_STI, OP_STR } /\ loc' = "loop")
            => LET ea == StoreAddress(reg, memory, instr)
               IN  /\ MemGet(memory', ea) = reg[DR(instr)]
                   /\ \A x \in (DOMAIN memory) \cup (DOMAIN memory') :
                          x # ea => MemGet(memory', x) = MemGet(memory, x)
                   /\ \A i \in 0 .. 9 : i # R_PC => reg'[i] = reg[i] ]_vars

\* C20: the interrupt handler is installed and the terminal is raw only once
\* every image path has been loaded, and an exit for want of a path or for a
\* failed load leaves the terminal as it was, no handler installed.
C20_SetupAfterLoading ==
    /\ (handler \/ tio = "raw" \/ original_tio # "none")
           => /\ Len(argv) >= 1
              /\ j = argc
              /\ \A i \in 1 .. Len(argv) : ReadImageOk(argv[i])
    /\ (loc = "exited" /\ (Len(argv) = 0 \/ \E i \in 1 .. Len(argv) : ~ReadImageOk(argv[i])))
           => (tio = "cooked" /\ ~handler /\ original_tio = "none")

\* C20 witness: the second path failed to load after the first had loaded.
C20_Witness ==
    loc = "exited" /\ exitStatus = 1 /\ j = 2 /\ tio = "cooked" /\ memory # EmptyMemory

====
